---------------------------- MODULE Spec2Model ----------------------------
(***************************************************************************)
(* Model of the news digest pipeline: collect.py (feed parsing, window     *)
(* filter, deduplication) and classify_and_summarize.py (section           *)
(* classifier, summary generator, deal extractor, digest assembler).       *)
(*                                                                         *)
(* A Python str on which the code works character by character (lower,     *)
(* strip, substring test, concatenation) is a sequence of one-character    *)
(* strings.  Optional[str] is a record [some, val].  Section names and the *)
(* fixed DealItem placeholders are atomic strings.  A list of NewsItem     *)
(* holds references: a bucket or a digest list is a sequence of indices    *)
(* into news_list, the objects the caller passed in.                       *)
(***************************************************************************)
EXTENDS Integers, Sequences, FiniteSets, TLC

(***************************************************************************)
(* Python str operations                                                   *)
(***************************************************************************)
\* str.lower() on the letters that occur in the inputs and tables.
ToLower ==
    [c \in {"A","B","C","D","E","F","G","H","I","J","K","L","M","N","O","P","Q",
            "R","S","T","U","V","W","X","Y","Z","Á","Ã","Ç","É","Ê","Í","Ó","Ú"} |->
        CASE c = "A" -> "a" [] c = "B" -> "b" [] c = "C" -> "c" [] c = "D" -> "d"
          [] c = "E" -> "e" [] c = "F" -> "f" [] c = "G" -> "g" [] c = "H" -> "h"
          [] c = "I" -> "i" [] c = "J" -> "j" [] c = "K" -> "k" [] c = "L" -> "l"
          [] c = "M" -> "m" [] c = "N" -> "n" [] c = "O" -> "o" [] c = "P" -> "p"
          [] c = "Q" -> "q" [] c = "R" -> "r" [] c = "S" -> "s" [] c = "T" -> "t"
          [] c = "U" -> "u" [] c = "V" -> "v" [] c = "W" -> "w" [] c = "X" -> "x"
          [] c = "Y" -> "y" [] c = "Z" -> "z" [] c = "Á" -> "á" [] c = "Ã" -> "ã"
          [] c = "Ç" -> "ç" [] c = "É" -> "é" [] c = "Ê" -> "ê" [] c = "Í" -> "í"
          [] c = "Ó" -> "ó" [] c = "Ú" -> "ú"]

Uppercase == DOMAIN ToLower

Lower(s) ==
    SubSeq([i \in 1..Len(s) |-> IF s[i] \in Uppercase THEN ToLower[s[i]] ELSE s[i]], 1, Len(s))

\* The characters str.strip() removes.
Whitespace == {" ", "\t", "\n", "\r"}

RECURSIVE LStrip(_)
LStrip(s) == IF s # << >> /\ Head(s) \in Whitespace THEN LStrip(Tail(s)) ELSE s

RECURSIVE RStrip(_)
RStrip(s) ==
    IF s # << >> /\ s[Len(s)] \in Whitespace THEN RStrip(SubSeq(s, 1, Len(s) - 1)) ELSE s

Strip(s) == RStrip(LStrip(s))

\* k in text
Contains(text, k) ==
    \/ k = << >>
    \/ \E i \in 0..(Len(text) - Len(k)) :
          text[i + 1] = k[1] /\ SubSeq(text, i + 1, i + Len(k)) = k

\* any(k in text for k in keys)
AnyIn(text, keys) == \E j \in 1..Len(keys) : Contains(text, keys[j])

\* x in list
InList(x, list) == \E j \in 1..Len(list) : list[j] = x

\* Optional[str]
None == [some |-> FALSE, val |-> << >>]
Some(s) == [some |-> TRUE, val |-> s]
\* truthiness of an Optional[str]: `not x` is true of None and of ""
Truthy(x) == x.some /\ x.val # << >>

(***************************************************************************)
(* data_model.py                                                           *)
(***************************************************************************)
SectionType ==
    {"panorama_brasil", "panorama_global", "saude_digital", "tech_saude", "deal", "conexa"}

\* secao before classification
NoSection == "None"

NewsItem(titulo, fonte, data_publicacao, url, resumo_raw) ==
    [titulo |-> titulo, fonte |-> fonte, data_publicacao |-> data_publicacao, url |-> url,
     resumo_raw |-> resumo_raw, secao |-> NoSection, resumo_exec |-> None]

DealItem(alvo, comprador_investidor, valor, tese, contexto) ==
    [alvo |-> alvo, comprador_investidor |-> comprador_investidor, valor |-> valor,
     tese |-> tese, contexto |-> contexto]

(***************************************************************************)
(* classify_section                                                        *)
(***************************************************************************)
conexa_keyword == <<"c","o","n","e","x","a">>

deal_keywords ==
    << <<"a","q","u","i","s","i","ç","ã","o">>, <<"a","d","q","u","i","r","i","u">>, <<"r","o","d","a","d","a">>, <<"s","é","r","i","e"," ","a">>,
       <<"i","n","v","e","s","t","i","m","e","n","t","o">> >>

saude_digital_keywords ==
    << <<"t","e","l","e","m","e","d","i","c","i","n","a">>,
       <<"c","o","o","r","d","e","n","a","ç","ã","o"," ","d","e"," ","c","u","i","d","a","d",
    "o">>,
       <<"a","t","e","n","ç","ã","o"," ","p","r","i","m","á","r","i","a">>,
       <<"c","u","i","d","a","d","o"," ","i","n","t","e","g","r","a","d","o">> >>

tech_saude_keywords ==
    << <<"i","a">>,
       <<"i","n","t","e","l","i","g","ê","n","c","i","a"," ","a","r","t","i","f","i","c","i",
    "a","l">>,
       <<"p","l","a","t","a","f","o","r","m","a"," ","d","i","g","i","t","a","l">>,
       <<"d","i","s","p","o","s","i","t","i","v","o">>, <<"w","e","a","r","a","b","l","e">> >>

br_sources ==
    << <<"v","a","l","o","r"," ","e","c","o","n","ô","m","i","c","o">>,
       <<"f","o","l","h","a">>, <<"o"," ","g","l","o","b","o">>, <<"e","s","t","a","d","ã","o">>, <<"n","e","o","f","e","e","d">>,
       <<"b","r","a","z","i","l"," ","j","o","u","r","n","a","l">>,
       <<"p","i","p","e","l","i","n","e"," ","v","a","l","o","r">>,
       <<"s","a","ú","d","e"," ","d","i","g","i","t","a","l"," ","n","e","w","s">>,
       <<"m","e","d","i","c","i","n","a"," ","s","/","a">> >>

\* Faulty variants, used to see that the properties below tell them from the code.
\* classify_section without the partner rule
classify_section_no_partner(item) ==
    LET text == Lower(item.titulo \o <<" ">> \o item.resumo_raw) IN
    IF AnyIn(text, deal_keywords) THEN "deal"
    ELSE IF AnyIn(text, saude_digital_keywords) THEN "saude_digital"
    ELSE IF AnyIn(text, tech_saude_keywords) THEN "tech_saude"
    ELSE IF InList(Lower(Strip(item.fonte)), br_sources) THEN "panorama_brasil"
    ELSE "panorama_global"

\* classify_section with the source rule ahead of the keyword rules
classify_section_source_first(item) ==
    LET text == Lower(item.titulo \o <<" ">> \o item.resumo_raw) IN
    IF InList(Lower(Strip(item.fonte)), br_sources) THEN "panorama_brasil"
    ELSE IF Contains(text, conexa_keyword) THEN "conexa"
    ELSE IF AnyIn(text, deal_keywords) THEN "deal"
    ELSE IF AnyIn(text, saude_digital_keywords) THEN "saude_digital"
    ELSE IF AnyIn(text, tech_saude_keywords) THEN "tech_saude"
    ELSE "panorama_global"

\* classify_section(item)
classify_section(item) ==
    LET text == Lower(item.titulo \o <<" ">> \o item.resumo_raw) IN
    IF Contains(text, conexa_keyword) THEN "conexa"
    ELSE IF AnyIn(text, deal_keywords) THEN "deal"
    ELSE IF AnyIn(text, saude_digital_keywords) THEN "saude_digital"
    ELSE IF AnyIn(text, tech_saude_keywords) THEN "tech_saude"
    ELSE IF InList(Lower(Strip(item.fonte)), br_sources) THEN "panorama_brasil"
    ELSE "panorama_global"

(***************************************************************************)
(* summarize_with_llm                                                      *)
(***************************************************************************)
cost_keywords == << <<"c","u","s","t","o">>, <<"s","i","n","i","s","t","r","o">>, <<"s","i","n","i","s","t","r","a","l","i","d","a","d","e">> >>

care_keywords ==
    << <<"t","e","l","e","m","e","d","i","c","i","n","a">>,
       <<"c","o","o","r","d","e","n","a","ç","ã","o"," ","d","e"," ","c","u","i","d","a","d",
    "o">> >>

funding_keywords == << <<"r","o","d","a","d","a">>, <<"i","n","v","e","s","t","i","m","e","n","t","o">>, <<"s","é","r","i","e"," ","a">> >>

acquisition_keywords == << <<"a","q","u","i","s","i","ç","ã","o">>, <<"a","d","q","u","i","r","i","u">> >>

sentence_cost ==
    <<"P","r","e","s","s","i","o","n","a"," ","c","u","s","t","o"," ","a","s","s","i","s",
    "t","e","n","c","i","a","l"," ","e"," ","f","o","r","ç","a"," ","o","p","e","r","a",
    "d","o","r","a","s"," ","a"," ","r","e","v","e","r"," ","m","o","d","e","l","o"," ",
    "d","e"," ","c","u","i","d","a","d","o",".">>

sentence_care ==
    <<"M","o","s","t","r","a"," ","a","v","a","n","ç","o"," ","d","e"," ","m","o","d","e",
    "l","o","s"," ","d","i","g","i","t","a","i","s"," ","e"," ","c","o","o","r","d","e",
    "n","a","ç","ã","o"," ","d","e"," ","c","u","i","d","a","d","o"," ","p","a","r","a",
    " ","r","e","d","u","z","i","r"," ","u","r","g","ê","n","c","i","a"," ","e"," ","s",
    "i","n","i","s","t","r","o",".">>

sentence_funding ==
    <<"S","i","n","a","l","i","z","a"," ","o","n","d","e"," ","i","n","v","e","s","t","i",
    "d","o","r","e","s"," ","a","c","r","e","d","i","t","a","m"," ","q","u","e"," ","e",
    "s","t","á"," ","o"," ","p","r","ó","x","i","m","o"," ","m","o","t","o","r"," ","d",
    "e"," ","c","r","e","s","c","i","m","e","n","t","o"," ","e","m"," ","s","a","ú","d",
    "e"," ","d","i","g","i","t","a","l",".">>

sentence_acquisition ==
    <<"M","o","v","i","m","e","n","t","o"," ","d","e"," ","c","o","n","s","o","l","i","d",
    "a","ç","ã","o"," ","e"," ","v","e","r","t","i","c","a","l","i","z","a","ç","ã","o",
    " ","d","o"," ","c","u","i","d","a","d","o",".">>

sentence_generic ==
    <<"I","n","d","i","c","a"," ","m","u","d","a","n","ç","a"," ","e","s","t","r","u","t",
    "u","r","a","l"," ","n","o"," ","m","o","d","e","l","o"," ","d","e"," ","s","a","ú",
    "d","e"," ","e"," ","p","o","t","e","n","c","i","a","l"," ","i","m","p","a","c","t",
    "o"," ","f","i","n","a","n","c","e","i","r","o","/","r","e","g","u","l","a","t","ó",
    "r","i","o",".">>

\* the branch taken when no API key is set
fallback_no_key(title, excerpt) ==
    LET text == Lower(title \o <<" ">> \o excerpt) IN
    IF Contains(text, cost_keywords[1]) \/ Contains(text, cost_keywords[2])
       \/ Contains(text, cost_keywords[3]) THEN sentence_cost
    ELSE IF AnyIn(text, care_keywords) THEN sentence_care
    ELSE IF AnyIn(text, funding_keywords) THEN sentence_funding
    ELSE IF AnyIn(text, acquisition_keywords) THEN sentence_acquisition
    ELSE sentence_generic

\* the except branch with the acquisition rule ahead of the funding rule
fallback_on_error_acquisition_first(title, excerpt) ==
    LET text == Lower(title \o <<" ">> \o excerpt) IN
    IF Contains(text, cost_keywords[1]) \/ Contains(text, cost_keywords[2])
       \/ Contains(text, cost_keywords[3]) THEN sentence_cost
    ELSE IF AnyIn(text, care_keywords) THEN sentence_care
    ELSE IF AnyIn(text, acquisition_keywords) THEN sentence_acquisition
    ELSE IF AnyIn(text, funding_keywords) THEN sentence_funding
    ELSE sentence_generic

\* the except branch
fallback_on_error(title, excerpt) ==
    LET text == Lower(title \o <<" ">> \o excerpt) IN
    IF Contains(text, cost_keywords[1]) \/ Contains(text, cost_keywords[2])
       \/ Contains(text, cost_keywords[3]) THEN sentence_cost
    ELSE IF AnyIn(text, care_keywords) THEN sentence_care
    ELSE IF AnyIn(text, funding_keywords) THEN sentence_funding
    ELSE IF AnyIn(text, acquisition_keywords) THEN sentence_acquisition
    ELSE sentence_generic

(***************************************************************************)
(* What openai.ChatCompletion.create can do to its caller: return a        *)
(* response (whose content may be missing), raise an Exception (timeout,   *)
(* authentication, transport), let a BaseException through (the caller's   *)
(* interrupt), or never return (the call is made with no timeout).         *)
(***************************************************************************)
Reply(kind, content) == [kind |-> kind, content |-> content]

\* try: response = create(...); return response.choices[0].message["content"].strip()
\* except Exception: fallback
\* Result: outcome "return" with a value, "raise" (the exception leaves the
\* function) or "hang" (the function never returns).
\* a handler that lets the exception through
after_service_reraise(title, excerpt, reply) ==
    IF reply.kind = "response" /\ reply.content.some
    THEN [outcome |-> "return", value |-> Strip(reply.content.val)]
    ELSE IF reply.kind = "hang"
    THEN [outcome |-> "hang", value |-> << >>]
    ELSE [outcome |-> "raise", value |-> << >>]

\* the try/except of summarize_with_llm
after_service(title, excerpt, reply) ==
    IF reply.kind = "response" /\ reply.content.some
    THEN [outcome |-> "return", value |-> Strip(reply.content.val)]
    ELSE IF reply.kind = "response" \/ reply.kind = "exception"
    THEN [outcome |-> "return", value |-> fallback_on_error(title, excerpt)]
    ELSE IF reply.kind = "interrupt"
    THEN [outcome |-> "raise", value |-> << >>]
    ELSE [outcome |-> "hang", value |-> << >>]

\* a test of the key that lets the empty key through
calls_service_always(api_key) == TRUE

\* summarize_with_llm asks the service only when the key is set and not empty

calls_service(api_key) == Truthy(api_key)


(***************************************************************************)
(* extract_deals                                                           *)
(***************************************************************************)
global_sources ==
    << <<"t","e","c","h","c","r","u","n","c","h">>,
       <<"w","a","l","l"," ","s","t","r","e","e","t"," ","j","o","u","r","n","a","l">>,
       <<"n","e","w"," ","y","o","r","k"," ","t","i","m","e","s">>,
       <<"f","i","n","a","n","c","i","a","l"," ","t","i","m","e","s">> >>

\* n.resumo_exec or ""
OrEmpty(x) == IF Truthy(x) THEN x.val ELSE << >>

\* a DealItem that does not copy the summary
deal_of_without_tese(n) ==
    DealItem("Alvo não mapeado", "Investidor não mapeado", "não divulgado", << >>,
             IF InList(Lower(n.fonte), global_sources) THEN "Global" ELSE "Brasil/Latam")

\* a DealItem whose source is trimmed before the lookup
deal_of_trimmed_source(n) ==
    DealItem("Alvo não mapeado", "Investidor não mapeado", "não divulgado",
             OrEmpty(n.resumo_exec),
             IF InList(Lower(Strip(n.fonte)), global_sources) THEN "Global" ELSE "Brasil/Latam")

\* the DealItem built for one news item, with its contexto
deal_of(n) ==
    DealItem("Alvo não mapeado", "Investidor não mapeado", "não divulgado",
             OrEmpty(n.resumo_exec),
             IF InList(Lower(n.fonte), global_sources) THEN "Global" ELSE "Brasil/Latam")

IsGlobal(deal) == deal.contexto = "Global"

IsBrasil(deal) == ~IsGlobal(deal)

\* deals_news is the list of items themselves
extract_deals(deals_news) ==
    LET made == [j \in 1..Len(deals_news) |-> deal_of(deals_news[j])] IN
    [brasil_deals |-> SelectSeq(made, IsBrasil), global_deals |-> SelectSeq(made, IsGlobal)]

(***************************************************************************)
(* build_weekly_newsletter                                                 *)
(***************************************************************************)
\* pan_br[:5] and the like
SectionLimit == 5

\* conexa_news[:2]
ConexaLimit == 2

\* list[:n]
Take(list, n) == SubSeq(list, 1, IF Len(list) < n THEN Len(list) ELSE n)

\* an Optional[str] inside an f-string
Format(x) == IF x.some THEN x.val ELSE <<"N","o","n","e">>

deal_bullet ==
    <<"D","e","a","l","s"," ","e","m"," ","s","a","ú","d","e",":"," ","c","o","n","s","o",
    "l","i","d","a","ç","ã","o"," ","e"," ","c","a","p","i","t","a","l"," ","e","n","t",
    "r","a","n","d","o"," ","e","m"," ","c","o","o","r","d","e","n","a","ç","ã","o"," ",
    "d","e"," ","c","u","i","d","a","d","o",".">>

conexa_placeholder ==
    <<"C","o","n","e","x","a"," ","e","m"," ","d","e","s","t","a","q","u","e"," ","e","s",
    "t","a"," ","s","e","m","a","n","a",":"," ","[","p","r","e","e","n","c","h","e","r",
    " ","m","a","n","u","a","l","m","e","n","t","e"," ","d","e","s","e","m","p","e","n",
    "h","o",","," ","n","o","v","o","s"," ","c","o","n","t","r","a","t","o","s",","," ",
    "i","n","d","i","c","a","d","o","r","e","s"," ","d","e"," ","r","e","s","o","l","u",
    "t","i","v","i","d","a","d","e",","," ","p","a","r","t","i","c","i","p","a","ç","ã",
    "o"," ","e","m"," ","e","v","e","n","t","o","s","]",".">>

agenda ==
    << "Próxima semana: acompanhar movimentação regulatória da ANS sobre custo assistencial e telemedicina.",
       "Eventos setoriais: acompanhar debates de atenção primária corporativa e coordenação de cuidado." >>

fechamento ==
    "Custos assistenciais continuam pressionando operadoras e empregadores. Modelos digitais de coordenação de cuidado e pronto atendimento virtual estão migrando de promessa para estratégia financeira."

\* the character U+2013 of the bullet's f-string, which the lexer does not read
EnDash == "U+2013"

\* f"{item.titulo} U+2013 {item.resumo_exec}"
bullet_of(item) == item.titulo \o <<" ", EnDash, " ">> \o Format(item.resumo_exec)

\* f"{c.titulo} ({c.fonte})\n- {c.resumo_exec}\n- Link: {c.url}"
conexa_bloco(c) ==
    c.titulo \o <<" ","(">> \o c.fonte \o <<")","\n","-"," ">> \o Format(c.resumo_exec)
        \o <<"\n","-"," ","L","i","n","k",":"," ">> \o c.url

\* bullets whose deal sentence is unconditional
top_bullets_deal_always(items, secs) ==
    (IF secs["panorama_brasil"] # << >>
        THEN << bullet_of(items[secs["panorama_brasil"][1]]) >> ELSE << >>)
    \o (IF secs["saude_digital"] # << >>
        THEN << bullet_of(items[secs["saude_digital"][1]]) >> ELSE << >>)
    \o << deal_bullet >>

\* bullets, from the untruncated buckets
top_bullets(items, secs) ==
    (IF secs["panorama_brasil"] # << >>
        THEN << bullet_of(items[secs["panorama_brasil"][1]]) >> ELSE << >>)
    \o (IF secs["saude_digital"] # << >>
        THEN << bullet_of(items[secs["saude_digital"][1]]) >> ELSE << >>)
    \o (IF secs["deal"] # << >> THEN << deal_bullet >> ELSE << >>)

conexa_blocos_of(items, secs) ==
    IF secs["conexa"] # << >>
    THEN LET first == Take(secs["conexa"], ConexaLimit) IN
         [j \in 1..Len(first) |-> conexa_bloco(items[first[j]])]
    ELSE << conexa_placeholder >>

\* a section list without the slice
section_list_untruncated(list) == list

\* one section list of the WeeklyNewsletter
section_list(list) == Take(list, SectionLimit)

\* periodo_label formats the clock reading and nothing else reads it: left out.
WeeklyNewsletter(items, secs, deals) ==
    [bullets_top3 |-> top_bullets(items, secs),
     panorama_brasil |-> section_list(secs["panorama_brasil"]),
     panorama_global |-> section_list(secs["panorama_global"]),
     saude_digital |-> section_list(secs["saude_digital"]),
     tech_saude |-> section_list(secs["tech_saude"]),
     deals_brasil |-> Take(deals.brasil_deals, SectionLimit),
     deals_global |-> Take(deals.global_deals, SectionLimit),
     conexa_blocos |-> conexa_blocos_of(items, secs),
     agenda_itens |-> agenda,
     fechamento |-> fechamento]


(***************************************************************************)
(* collect.py                                                              *)
(***************************************************************************)
\* Time is counted in instants; Day is the number of instants in a day.
Day == 4

\* collect_all_sources(days: int = 7)
DefaultDays == 7

\* get_time_window_days: (start, end) read from the clock
get_time_window_days(now, days) == [start |-> now - days * Day, end |-> now]

\* The source name of each feed URL of RSS_FEEDS, in the order of the dict.
RSS_FEEDS ==
    << <<"E","s","t","a","d","ã","o">>, <<"E","s","t","a","d","ã","o">>,
       <<"F","o","l","h","a"," ","d","e"," ","S","."," ","P","a","u","l","o">>,
       <<"V","a","l","o","r"," ","E","c","o","n","ô","m","i","c","o">>,
       <<"O"," ","G","l","o","b","o">>,
       <<"B","r","a","z","i","l"," ","J","o","u","r","n","a","l">>,
       <<"N","e","o","F","e","e","d">>,
       <<"P","i","p","e","l","i","n","e"," ","V","a","l","o","r">>,
       <<"M","e","d","i","c","i","n","a"," ","S","/","A">>,
       <<"S","a","ú","d","e"," ","D","i","g","i","t","a","l"," ","N","e","w","s">>,
       <<"H","e","a","l","t","h","c","a","r","e">>,
       <<"B","u","s","i","n","e","s","s"," ","I","n","s","i","d","e","r">>,
       <<"T","e","c","h","C","r","u","n","c","h">>,
       <<"W","a","l","l"," ","S","t","r","e","e","t"," ","J","o","u","r","n","a","l">>,
       <<"N","e","w"," ","Y","o","r","k"," ","T","i","m","e","s">> >>

\* A raw feed entry: title, link, summary, published_parsed (<< >> when the feed
\* omits it, << t >> otherwise) and whether reading it raises.
RawEntry(title, link, summary, published, fault) ==
    [title |-> title, link |-> link, summary |-> summary, published |-> published,
     fault |-> fault]

\* datetime.fromtimestamp(datetime(*published_parsed[:6]).timestamp(), tz=utc):
\* the naive time is read as local time, utc_off being the local zone's offset
from_published(t, utc_off) == t - utc_off

\* the emptiness test applied to the untrimmed title and link
parse_entry_untrimmed_test(source_name, entry, now, utc_off) ==
    IF entry.fault THEN << >>
    ELSE LET title == Strip(entry.title)
             link == Strip(entry.link)
             summary == Strip(entry.summary)
             dt == IF entry.published # << >>
                   THEN from_published(entry.published[1], utc_off)
                   ELSE now
         IN  IF entry.title = << >> \/ entry.link = << >> THEN << >>
             ELSE << NewsItem(title, source_name, dt, link, summary) >>

\* an exception raised by an entry leaves the loop and the collection
after_entry_fault_propagates(entry) == IF entry.fault THEN "raised" ELSE "feeds"

\* Where collect_all_sources stands after one entry went through the loop body:
\* `continue` after a dropped entry and after `except Exception`, the next
\* iteration after an append.
after_entry(entry) == "feeds"

\* The body of _parse_feed's loop for one entry: << >> when the entry is dropped
\* (no title, no link, or an exception), << item >> otherwise.
parse_entry(source_name, entry, now, utc_off) ==
    IF entry.fault THEN << >>
    ELSE LET title == Strip(entry.title)
             link == Strip(entry.link)
             summary == Strip(entry.summary)
             dt == IF entry.published # << >>
                   THEN from_published(entry.published[1], utc_off)
                   ELSE now
         IN  IF title = << >> \/ link = << >> THEN << >>
             ELSE << NewsItem(title, source_name, dt, link, summary) >>

\* if start <= item.data_publicacao <= end
in_window(item, window) ==
    window.start <= item.data_publicacao /\ item.data_publicacao <= window.end

\* key = (item.titulo.strip().lower(), item.fonte.strip().lower())
dedup_key(item) == << Lower(Strip(item.titulo)), Lower(Strip(item.fonte)) >>

\* The dict `unique` as the sequence of its (key, value) entries in insertion order.
HasKey(unique, key) == \E j \in 1..Len(unique) : unique[j].key = key

\* unique[key] = item without the test: the last item with a key replaces the first
dict_put_overwrite(unique, item) ==
    LET key == dedup_key(item) IN
    IF HasKey(unique, key)
    THEN [j \in 1..Len(unique) |->
             IF unique[j].key = key THEN [key |-> key, value |-> item] ELSE unique[j]]
    ELSE Append(unique, [key |-> key, value |-> item])

\* a new key is entered ahead of the others instead of after them
dict_put_front(unique, item) ==
    LET key == dedup_key(item) IN
    IF HasKey(unique, key) THEN unique ELSE << [key |-> key, value |-> item] >> \o unique

\* if key not in unique: unique[key] = item
dict_put(unique, item) ==
    LET key == dedup_key(item) IN
    IF HasKey(unique, key) THEN unique ELSE Append(unique, [key |-> key, value |-> item])

RECURSIVE dict_fill(_, _)
dict_fill(unique, items) ==
    IF items = << >> THEN unique ELSE dict_fill(dict_put(unique, Head(items)), Tail(items))

\* the deduplication of collect_all_sources: list(unique.values())
dedup(collected_items) ==
    LET unique == dict_fill(<< >>, collected_items) IN
    [j \in 1..Len(unique) |-> unique[j].value]

(***************************************************************************)
(* Inputs                                                                  *)
(***************************************************************************)
\* longest batch of the two-article catalogs (assembled without an API key): long
\* enough for a section to hold more than SectionLimit items
MaxBatch == 7

\* longest batch drawn from CoreArticles without an API key
MaxCoreBatch == 3

\* longest batch assembled with an API key (every item then has a service reply)
MaxServiceBatch == 2

url_1 == <<"h","t","t","p",":","/","/","n","/","1">>

Article(titulo, fonte, resumo_raw) == NewsItem(titulo, fonte, 0, url_1, resumo_raw)

\* one article for each way through the classifier and the deal extractor
CoreArticles ==
    { Article(<<"C","u","s","t","o"," ","s","o","b","e">>, <<"E","s","t","a","d","ã","o">>, << >>),
      Article(<<"N","H","S"," ","p","l","a","n">>, <<"N","e","w"," ","Y","o","r","k"," ","T","i","m","e","s">>, << >>),
      Article(<<"T","e","l","e","m","e","d","i","c","i","n","a">>, <<"F","o","l","h","a">>, << >>),
      Article(<<"W","e","a","r","a","b","l","e">>, <<"T","e","c","h","C","r","u","n","c","h">>, << >>),
      Article(<<"R","o","d","a","d","a"," ","S","é","r","i","e"," ","A">>, <<"T","e","c","h","C","r","u","n","c","h">>, << >>),
      Article(<<"A","q","u","i","s","i","ç","ã","o">>, <<"N","e","o","F","e","e","d">>, << >>),
      Article(<<"C","o","n","e","x","a">>, <<"V","a","l","o","r"," ","E","c","o","n","ô","m","i","c","o">>, << >>) }

WideTitles ==
    { <<"C","o","n","e","x","a"," ","a","d","q","u","i","r","i","u"," ","r","e","d","e">>,
      <<"O","p","e","r","a","d","o","r","a"," ","X"," ","a","n","u","n","c","i","a"," ","r",
    "o","d","a","d","a"," ","S","é","r","i","e"," ","A"," ","d","e"," ","R","$","5","0",
    "M">>,
      <<"T","e","l","e","m","e","d","i","c","i","n","a"," ","c","o","m"," ","I","A">>,
      <<"N","o","t","í","c","i","a">>,
      <<"S","i","n","i","s","t","r","o"," ","e"," ","a","q","u","i","s","i","ç","ã","o">>,
      <<"S","é","r","i","e">>,
      <<"P","l","a","n","o">>,
      <<"W","E","A","R","A","B","L","E">> }

WideExcerpts ==
    { << >>, <<"a"," ","c","a","m","i","n","h","o">>,
      <<"i","n","v","e","s","t","i","m","e","n","t","o">> }

WideSources ==
    { <<"F","o","l","h","a">>, <<" ","F","O","L","H","A"," ">>, <<"F","o","l","h","a"," ","d","e"," ","S","."," ","P","a","u","l","o">>,
      <<"T","e","c","h","C","r","u","n","c","h">>, <<"T","e","c","h","C","r","u","n","c","h"," ">>,
      <<"F","i","n","a","n","c","i","a","l"," ","T","i","m","e","s">> }

WideArticles == { Article(t, s, e) : t \in WideTitles, s \in WideSources, e \in WideExcerpts }

\* os.getenv("OPENAI_API_KEY"): unset, set to "", or set to a key
ApiKeys == { None, Some(<< >>), Some(<<"s","k">>) }

Replies ==
    { Reply("response", Some(<<" ","O","k","."," ">>)), Reply("response", Some(<<" "," ">>)),
      Reply("response", None), Reply("exception", None), Reply("interrupt", None),
      Reply("hang", None) }

\* the clock reading when collect_all_sources starts
StartClock == 40

\* how many instants the clock may advance during a collection
MaxTicks == 1

\* the feeds of RSS_FEEDS, from the first, that hold entries
MaxFeeds == 3

\* the entries read in one collection
MaxEntries == 3

\* the local zone's UTC offset, in instants: a host one instant behind UTC
LocalOffsets == {-1}

link_1 == <<" ","h","t","t","p",":","/","/","n","/","1"," ">>

summary_1 == <<" ","s"," ">>

RawEntries ==
    { RawEntry(<<" ","A">>, link_1, summary_1, << StartClock - Day >>, FALSE),
      RawEntry(<<"b"," ">>, link_1, summary_1, << StartClock - Day >>, FALSE),
      RawEntry(<<"a">>, link_1, summary_1, << >>, FALSE),
      RawEntry(<<"a">>, link_1, summary_1, << StartClock - 8 * Day >>, FALSE),
      RawEntry(<<" "," ">>, link_1, summary_1, << StartClock - Day >>, FALSE),
      RawEntry(<<"a">>, << >>, summary_1, << StartClock - Day >>, FALSE),
      RawEntry(<<"a">>, link_1, summary_1, << StartClock - Day >>, TRUE) }

(***************************************************************************)
(* State                                                                   *)
(***************************************************************************)
VARIABLES
    mode,             \* "core", "long" or "wide": where the caller's articles come from
    pair,             \* in mode "long", the two articles the batch is made of
    api_key,          \* the environment's OPENAI_API_KEY
    news_list,        \* the caller's list, as far as the loop has come
    pc,               \* "split", "calling", "done", "aborted", "hung"
    buckets,          \* split_sections' six lists, by section
    deals_br,         \* extract_deals' brasil_deals
    deals_gl,         \* extract_deals' global_deals
    returned,         \* << >>, or << the WeeklyNewsletter returned >>
    summarize_calls,  \* per item: calls of summarize_with_llm
    service_calls,    \* per item: calls of openai.ChatCompletion.create
    service_log,      \* per item: "none", "pending", "ok", "failed", "interrupt", "hang"
    c_pc,             \* collect_all_sources: "idle", "start", "feeds", "done", "raised"
    clock,            \* the current instant
    utc_offset,       \* the local zone's UTC offset
    window,           \* (start, end) of get_time_window_days
    feed_idx,         \* the feed of RSS_FEEDS being parsed (0 before the first)
    entries_seen,     \* entries read so far
    entries_read,     \* the entries read so far, each with the feed it came from
    parsed_items,     \* the items _parse_feed has appended so far, over all feeds
    collected,        \* the items that passed the window filter
    result            \* what collect_all_sources returned

build_vars ==
    << mode, pair, api_key, news_list, pc, buckets, deals_br, deals_gl, returned,
       summarize_calls, service_calls, service_log >>

collect_vars ==
    << c_pc, clock, utc_offset, window, feed_idx, entries_seen, entries_read, parsed_items,
       collected, result >>

vars == << build_vars, collect_vars >>

Catalog == IF mode = "core" THEN CoreArticles ELSE IF mode = "wide" THEN WideArticles ELSE pair

\* In mode "wide" the caller passes a list of one article.
BatchLimit ==
    IF mode = "wide" THEN 1
    ELSE IF mode = "long" THEN MaxBatch
    ELSE IF calls_service(api_key) THEN MaxServiceBatch ELSE MaxCoreBatch

CollectIdle ==
    /\ c_pc = "idle"
    /\ clock = StartClock
    /\ utc_offset = 0
    /\ window = get_time_window_days(StartClock, DefaultDays)
    /\ feed_idx = 0
    /\ entries_seen = 0
    /\ entries_read = << >>
    /\ parsed_items = << >>
    /\ collected = << >>
    /\ result = << >>

Init ==
    /\ CollectIdle
    /\ \/ mode \in {"core", "wide"} /\ pair = {} /\ api_key \in ApiKeys
       \/ /\ mode = "long"
          /\ pair \in {c \in SUBSET CoreArticles : Cardinality(c) = 2}
          /\ api_key = None
    /\ news_list = << >>
    /\ pc = "split"
    /\ buckets = [s \in SectionType |-> << >>]
    /\ deals_br = << >>
    /\ deals_gl = << >>
    /\ returned = << >>
    /\ summarize_calls = << >>
    /\ service_calls = << >>
    /\ service_log = << >>

(***************************************************************************)
(* split_sections                                                          *)
(***************************************************************************)
\* a chain that appends every item to panorama_global
route_all_to_global(secs, sec, i) == [secs EXCEPT !["panorama_global"] = Append(@, i)]

\* the if/elif chain that appends the item to the list of its section
route(secs, sec, i) == IF sec \in DOMAIN secs THEN [secs EXCEPT ![sec] = Append(@, i)] ELSE secs

\* One turn of the loop, up to the service call when there is one: the item is
\* classified and annotated, and without a key summarised and appended.
SplitItem(a) ==
    /\ pc = "split"
    /\ Len(news_list) < BatchLimit
    /\ LET i == Len(news_list) + 1
           sec == classify_section(a)
       IN  IF calls_service(api_key)
           THEN /\ news_list' = Append(news_list, [a EXCEPT !.secao = sec])
                /\ pc' = "calling"
                /\ service_calls' = Append(service_calls, 1)
                /\ service_log' = Append(service_log, "pending")
                /\ UNCHANGED buckets
           ELSE /\ news_list' =
                       Append(news_list,
                              [a EXCEPT !.secao = sec,
                                        !.resumo_exec =
                                            Some(fallback_no_key(a.titulo, a.resumo_raw))])
                /\ buckets' = route(buckets, sec, i)
                /\ service_calls' = Append(service_calls, 0)
                /\ service_log' = Append(service_log, "none")
                /\ UNCHANGED pc
    /\ summarize_calls' = Append(summarize_calls, 1)
    /\ UNCHANGED << mode, pair, api_key, deals_br, deals_gl, returned >>
    /\ UNCHANGED collect_vars

\* what the reply was, for the log
ReplyClass(r) ==
    IF r.kind = "response" THEN (IF r.content.some THEN "ok" ELSE "failed")
    ELSE IF r.kind = "exception" THEN "failed"
    ELSE r.kind

\* The service call of the current item ends (or is known never to end), and the
\* turn of the loop with it.
ServiceReply(r) ==
    /\ pc = "calling"
    /\ LET i == Len(news_list)
           item == news_list[i]
           res == after_service(item.titulo, item.resumo_raw, r)
       IN  /\ service_log' = [service_log EXCEPT ![i] = ReplyClass(r)]
           /\ IF res.outcome = "return"
              THEN /\ news_list' = [news_list EXCEPT ![i].resumo_exec = Some(res.value)]
                   /\ buckets' = route(buckets, item.secao, i)
                   /\ pc' = "split"
              ELSE /\ pc' = IF res.outcome = "raise" THEN "aborted" ELSE "hung"
                   /\ UNCHANGED << news_list, buckets >>
    /\ UNCHANGED << mode, pair, api_key, deals_br, deals_gl, returned, summarize_calls,
                    service_calls >>
    /\ UNCHANGED collect_vars

\* The caller interrupts the run between two items: the exception leaves
\* build_weekly_newsletter, which returns nothing.
Interrupt ==
    /\ pc = "split"
    /\ news_list # << >>
    /\ pc' = "aborted"
    /\ UNCHANGED << mode, pair, api_key, news_list, buckets, deals_br, deals_gl, returned,
                    summarize_calls, service_calls, service_log >>
    /\ UNCHANGED collect_vars

\* The list is exhausted: split_sections returns, and build_weekly_newsletter
\* extracts the deals, builds the bullets and returns the newsletter.
Assemble ==
    /\ pc = "split"
    /\ LET deals_news == [j \in 1..Len(buckets["deal"]) |-> news_list[buckets["deal"][j]]]
           deals == extract_deals(deals_news)
       IN  /\ deals_br' = deals.brasil_deals
           /\ deals_gl' = deals.global_deals
           /\ returned' = << WeeklyNewsletter(news_list, buckets, deals) >>
    /\ pc' = "done"
    /\ UNCHANGED << mode, pair, api_key, news_list, buckets, summarize_calls, service_calls,
                    service_log >>
    /\ UNCHANGED collect_vars

Next ==
    \/ \E a \in Catalog : SplitItem(a)
    \/ \E r \in Replies : ServiceReply(r)
    \/ Interrupt
    \/ Assemble

Spec == Init /\ [][Next]_vars

\* Every step the code can take is eventually taken: the interpreter runs on, and
\* a service call that is going to end does end.
FairSpec == Spec /\ WF_vars(Next)


(***************************************************************************)
(* collect_all_sources                                                     *)
(***************************************************************************)
BuildIdle ==
    /\ mode = "core"
    /\ pair = {}
    /\ api_key = None
    /\ news_list = << >>
    /\ pc = "idle"
    /\ buckets = [s \in SectionType |-> << >>]
    /\ deals_br = << >>
    /\ deals_gl = << >>
    /\ returned = << >>
    /\ summarize_calls = << >>
    /\ service_calls = << >>
    /\ service_log = << >>

InitCollect ==
    /\ BuildIdle
    /\ c_pc = "start"
    /\ clock = StartClock
    /\ utc_offset \in LocalOffsets
    /\ window = get_time_window_days(StartClock, DefaultDays)
    /\ feed_idx = 0
    /\ entries_seen = 0
    /\ entries_read = << >>
    /\ parsed_items = << >>
    /\ collected = << >>
    /\ result = << >>

\* start, end = get_time_window_days(days)
GetWindow ==
    /\ c_pc = "start"
    /\ window' = get_time_window_days(clock, DefaultDays)
    /\ c_pc' = "feeds"
    /\ UNCHANGED << clock, utc_offset, feed_idx, entries_seen, entries_read, parsed_items,
                    collected, result >>
    /\ UNCHANGED build_vars

\* _parse_feed is entered for the next feed: feedparser.parse fetches the URL,
\* which takes time; a feed that cannot be fetched has no entries.  The feeds
\* after the last entry read hold nothing and are left out.
ParseFeed ==
    /\ c_pc = "feeds"
    /\ feed_idx < MaxFeeds
    /\ entries_seen < MaxEntries
    /\ feed_idx < Len(RSS_FEEDS)
    /\ feed_idx' = feed_idx + 1
    /\ \E t \in {clock, clock + 1} :
          /\ t <= StartClock + MaxTicks
          /\ clock' = t
    /\ UNCHANGED << c_pc, utc_offset, window, entries_seen, entries_read, parsed_items,
                    collected, result >>
    /\ UNCHANGED build_vars

\* One entry of the current feed goes through _parse_feed's loop and, when it
\* yields an item, through the window filter of collect_all_sources.
ParseEntry(entry) ==
    /\ c_pc = "feeds"
    /\ feed_idx >= 1
    /\ entries_seen < MaxEntries
    /\ entries_seen' = entries_seen + 1
    /\ entries_read' = Append(entries_read, [feed |-> feed_idx, entry |-> entry])
    /\ LET parsed == parse_entry(RSS_FEEDS[feed_idx], entry, clock, utc_offset) IN
       /\ parsed_items' = parsed_items \o parsed
       /\ collected' =
              IF parsed # << >> /\ in_window(parsed[1], window)
              THEN Append(collected, parsed[1])
              ELSE collected
    /\ c_pc' = after_entry(entry)
    /\ UNCHANGED << clock, utc_offset, window, feed_idx, result >>
    /\ UNCHANGED build_vars

\* The feeds are exhausted: the collected items are deduplicated and returned.
Dedup ==
    /\ c_pc = "feeds"
    /\ result' = dedup(collected)
    /\ c_pc' = "done"
    /\ UNCHANGED << clock, utc_offset, window, feed_idx, entries_seen, entries_read,
                    parsed_items, collected >>
    /\ UNCHANGED build_vars

NextCollect ==
    \/ GetWindow
    \/ ParseFeed
    \/ \E entry \in RawEntries : ParseEntry(entry)
    \/ Dedup

SpecCollect == InitCollect /\ [][NextCollect]_vars


(***************************************************************************)
(* Properties                                                              *)
(***************************************************************************)
Indices == [i \in 1..Len(news_list) |-> i]

\* the items the classifier assigned to section s, in the order of the batch
AssignedTo(s) == SelectSeq(Indices, LAMBDA i : news_list[i].secao = s)

FirstFive(list) == SubSeq(list, 1, IF Len(list) < 5 THEN Len(list) ELSE 5)

TextOf(item) == Lower(item.titulo \o <<" ">> \o item.resumo_raw)

\* for each rule of the classifier, whether it matches the item (the source rule
\* always does)
RuleMatches(item) ==
    LET text == TextOf(item) IN
    << Contains(text, conexa_keyword), AnyIn(text, deal_keywords),
       AnyIn(text, saude_digital_keywords), AnyIn(text, tech_saude_keywords), TRUE >>

RuleSection(k, item) ==
    CASE k = 1 -> "conexa"
      [] k = 2 -> "deal"
      [] k = 3 -> "saude_digital"
      [] k = 4 -> "tech_saude"
      [] OTHER -> IF InList(Lower(Strip(item.fonte)), br_sources)
                  THEN "panorama_brasil" ELSE "panorama_global"

\* C1: every classified item has exactly one of the six sections, the one of the
\* first rule that matches it in the order partner, deal, care, tech, source; two
\* items with the same title, excerpt and source have the same section.
C1_FirstMatchingRule ==
    /\ \A i \in 1..Len(news_list) :
          LET item == news_list[i]
              matches == RuleMatches(item)
          IN  /\ item.secao \in SectionType
              /\ \E k \in 1..5 :
                    /\ matches[k]
                    /\ \A j \in 1..(k - 1) : ~matches[j]
                    /\ item.secao = RuleSection(k, item)
    /\ \A i, j \in 1..Len(news_list) :
          (/\ news_list[i].titulo = news_list[j].titulo
           /\ news_list[i].resumo_raw = news_list[j].resumo_raw
           /\ news_list[i].fonte = news_list[j].fonte)
          => news_list[i].secao = news_list[j].secao

\* an item matching the care rule, the tech rule and the domestic source list is
\* classified as saude_digital
C1_Witness ==
    \E i \in 1..Len(news_list) :
        /\ news_list[i].titulo = <<"T","e","l","e","m","e","d","i","c","i","n","a"," ","c","o","m"," ","I","A">>
        /\ news_list[i].fonte = <<" ","F","O","L","H","A"," ">>
        /\ news_list[i].resumo_raw = << >>
        /\ news_list[i].secao = "saude_digital"

\* C2: an item whose service call failed has the rule-based fallback sentence as
\* its summary, the service was called once for it, and the loop went on.
C2_FailureFallsBack ==
    \A i \in 1..Len(news_list) :
        service_log[i] = "failed" =>
            /\ news_list[i].resumo_exec =
                   Some(fallback_no_key(news_list[i].titulo, news_list[i].resumo_raw))
            /\ service_calls[i] = 1
            /\ (i = Len(news_list) => pc \notin {"calling", "hung"})

\* after a failed call for the first item the second item is being processed
C2_Witness ==
    /\ Len(news_list) = 2
    /\ service_log[1] = "failed"
    /\ news_list[1].resumo_exec = Some(sentence_cost)
    /\ service_calls[1] = 1
    /\ service_log[2] = "ok"

\* C3: a service call that never returns is given up, and the batch completes.
C3_HungCallTimesOut == (pc = "hung") ~> (pc = "done")

\* C5: when the batch is aborted nothing is returned and no item of the caller
\* carries a section or a summary.
C5_AbortDiscards ==
    pc = "aborted" =>
        /\ returned = << >>
        /\ \A i \in 1..Len(news_list) :
              news_list[i].secao = NoSection /\ news_list[i].resumo_exec = None

\* C6: each section list of the newsletter is the first five, in batch order, of
\* the items assigned to that section; the deal lists have at most five entries;
\* no item is in the list of another section, or in two lists.
C6_SectionLists ==
    pc = "done" =>
        LET d == returned[1]
            lists == [s \in {"panorama_brasil", "panorama_global", "saude_digital",
                             "tech_saude"} |->
                         CASE s = "panorama_brasil" -> d.panorama_brasil
                           [] s = "panorama_global" -> d.panorama_global
                           [] s = "saude_digital" -> d.saude_digital
                           [] OTHER -> d.tech_saude]
        IN  /\ \A s \in DOMAIN lists :
                  /\ Len(lists[s]) <= 5
                  /\ lists[s] = FirstFive(AssignedTo(s))
                  /\ \A j \in 1..Len(lists[s]) : news_list[lists[s][j]].secao = s
            /\ \A s1, s2 \in DOMAIN lists :
                  s1 # s2 =>
                      \A j1 \in 1..Len(lists[s1]), j2 \in 1..Len(lists[s2]) :
                          lists[s1][j1] # lists[s2][j2]
            /\ Len(d.deals_brasil) <= 5
            /\ Len(d.deals_global) <= 5

\* six items went to one section, interleaved with another, and five are listed
C6_Witness ==
    /\ pc = "done"
    /\ Len(buckets["panorama_global"]) = 6
    /\ Len(returned[1].panorama_global) = 5
    /\ Len(returned[1].saude_digital) = 1
    /\ news_list[1].secao = "saude_digital"

\* C7: the bullets are, in this order, the first panorama_brasil item's bullet
\* when there is such an item, the first saude_digital item's bullet when there is
\* one, and the deal sentence when an item was classified as deal: at most three.
C7_TopBullets ==
    pc = "done" =>
        LET b == returned[1].bullets_top3
            br == AssignedTo("panorama_brasil")
            sd == AssignedTo("saude_digital")
            dl == AssignedTo("deal")
        IN  /\ Len(b) <= 3
            /\ b = (IF br # << >> THEN << bullet_of(news_list[br[1]]) >> ELSE << >>)
                   \o (IF sd # << >> THEN << bullet_of(news_list[sd[1]]) >> ELSE << >>)
                   \o (IF dl # << >> THEN << deal_bullet >> ELSE << >>)

\* no panorama_brasil item: the bullets are the saude_digital one and the deal one
C7_Witness ==
    /\ pc = "done"
    /\ Len(news_list) = 3
    /\ AssignedTo("panorama_brasil") = << >>
    /\ news_list[3].secao = "saude_digital"
    /\ returned[1].bullets_top3 = << bullet_of(news_list[3]), deal_bullet >>

GlobalDealItems ==
    SelectSeq(AssignedTo("deal"), LAMBDA i : InList(Lower(news_list[i].fonte), global_sources))

BrasilDealItems ==
    SelectSeq(AssignedTo("deal"), LAMBDA i : ~InList(Lower(news_list[i].fonte), global_sources))

\* C8: once the newsletter is returned every item of the batch has been summarised
\* exactly once and has a summary, listed or not, and the tese of every deal is
\* the summary of the item it was made from.
C8_EverySummary ==
    pc = "done" =>
        /\ \A i \in 1..Len(news_list) :
              summarize_calls[i] = 1 /\ news_list[i].resumo_exec.some
        /\ Len(summarize_calls) = Len(news_list)
        /\ Len(deals_gl) = Len(GlobalDealItems)
        /\ Len(deals_br) = Len(BrasilDealItems)
        /\ \A j \in 1..Len(deals_gl) :
              deals_gl[j].tese = news_list[GlobalDealItems[j]].resumo_exec.val
        /\ \A j \in 1..Len(deals_br) :
              deals_br[j].tese = news_list[BrasilDealItems[j]].resumo_exec.val
        /\ returned[1].deals_global = FirstFive(deals_gl)
        /\ returned[1].deals_brasil = FirstFive(deals_br)

\* six deals, of which the sixth is not listed, all with their item's summary
C8_Witness ==
    /\ pc = "done"
    /\ Len(deals_br) = 6
    /\ Len(returned[1].deals_brasil) = 5
    /\ deals_br[6].tese = sentence_acquisition
    /\ news_list[6].resumo_exec = Some(sentence_acquisition)

\* the sentence of the first matching fallback rule for a lower-cased text
FallbackSentence(text) ==
    IF AnyIn(text, cost_keywords) THEN sentence_cost
    ELSE IF AnyIn(text, care_keywords) THEN sentence_care
    ELSE IF AnyIn(text, funding_keywords) THEN sentence_funding
    ELSE IF AnyIn(text, acquisition_keywords) THEN sentence_acquisition
    ELSE sentence_generic

\* C9: a summary made in fallback mode, for want of a key or after a failed call,
\* is the sentence of the first matching rule in the order cost, care, funding,
\* acquisition, generic for the item's lower-cased text; without a key the service
\* is not called.
C9_FallbackSentence ==
    /\ \A i \in 1..Len(news_list) :
          /\ service_log[i] \in {"none", "failed"} =>
                news_list[i].resumo_exec = Some(FallbackSentence(TextOf(news_list[i])))
          /\ service_log[i] = "none" => service_calls[i] = 0
    /\ ~Truthy(api_key) =>
          \A i \in 1..Len(news_list) : service_calls[i] = 0 /\ service_log[i] = "none"

\* after a failed call, a text with a funding and an acquisition keyword gets the
\* funding sentence
C9_Witness ==
    /\ Len(news_list) = 1
    /\ service_log[1] = "failed"
    /\ news_list[1].titulo = <<"C","o","n","e","x","a"," ","a","d","q","u","i","r","i","u"," ","r","e","d","e">>
    /\ news_list[1].resumo_raw = <<"i","n","v","e","s","t","i","m","e","n","t","o">>
    /\ news_list[1].resumo_exec = Some(sentence_funding)

\* C10: extract_deals makes one deal for each deal item, in one of its two lists
\* and in the order of the items; a deal is Global exactly when its item's
\* lower-cased source is on the international list.
C10_DealGeography ==
    pc = "done" =>
        /\ Len(deals_br) + Len(deals_gl) = Len(AssignedTo("deal"))
        /\ deals_gl = [j \in 1..Len(GlobalDealItems) |->
                          [deal_of(news_list[GlobalDealItems[j]]) EXCEPT !.contexto = "Global"]]
        /\ deals_br = [j \in 1..Len(BrasilDealItems) |->
                          [deal_of(news_list[BrasilDealItems[j]])
                              EXCEPT !.contexto = "Brasil/Latam"]]
        /\ \A i \in 1..Len(news_list) :
              (news_list[i].secao = "deal" /\ news_list[i].fonte = <<"T","e","c","h","C","r","u","n","c","h">>)
                  => \E j \in 1..Len(GlobalDealItems) : GlobalDealItems[j] = i

\* two deals from TechCrunch with different summaries, in the order of their items
C10_Witness ==
    /\ pc = "done"
    /\ Len(deals_gl) = 2
    /\ Len(deals_br) = 0
    /\ news_list[1].fonte = <<"T","e","c","h","C","r","u","n","c","h">>
    /\ deals_gl[1].tese = sentence_funding
    /\ deals_gl[2].tese = <<"O","k",".">>
    /\ deals_gl[1].contexto = "Global"

CollectedIndices == [p \in 1..Len(collected) |-> p]

\* the positions of collected whose key no earlier position has
FirstOccurrences ==
    SelectSeq(CollectedIndices,
              LAMBDA p : \A q \in 1..(p - 1) :
                             dedup_key(collected[q]) # dedup_key(collected[p]))

\* C4: collect_all_sources returns, in their order, the items of the collected
\* sequence that are the first with their (title, source) key: one item for each
\* key, later items with the key discarded.
C4_FirstOccurrenceWins ==
    c_pc = "done" =>
        /\ result = [j \in 1..Len(FirstOccurrences) |-> collected[FirstOccurrences[j]]]
        /\ \A j1, j2 \in 1..Len(result) :
              j1 # j2 => dedup_key(result[j1]) # dedup_key(result[j2])
        /\ {dedup_key(result[j]) : j \in 1..Len(result)}
               = {dedup_key(collected[p]) : p \in 1..Len(collected)}

\* "A", "b", "a" from one source: "A" and "b" are returned, "a" is discarded
C4_Witness ==
    /\ c_pc = "done"
    /\ Len(collected) = 3
    /\ collected[1].titulo = <<"A">>
    /\ collected[2].titulo = <<"b">>
    /\ collected[3].titulo = <<"a">>
    /\ collected[1].fonte = collected[3].fonte
    /\ result = << collected[1], collected[2] >>

\* C11: the list collect_all_sources returned is the deduplication of the collected
\* list; deduplicating it once more gives the same list again, and it is never
\* longer than the collected list.
C11_DedupIdempotent ==
    c_pc = "done" =>
        /\ dedup(result) = result
        /\ Len(result) <= Len(collected)

\* three collected items, one of them a duplicate: two are returned
C11_Witness ==
    /\ c_pc = "done"
    /\ Len(collected) = 3
    /\ Len(result) = 2
    /\ dedup_key(result[1]) # dedup_key(result[2])
    /\ dedup(result) = result

\* an entry that reads without an exception and has a title and a link left after trimming
Emittable(entry) ==
    /\ ~entry.fault
    /\ Strip(entry.title) # << >>
    /\ Strip(entry.link) # << >>

\* the positions of entries_read that hold an emittable entry
EmittablePositions ==
    SelectSeq([k \in 1..Len(entries_read) |-> k],
              LAMBDA k : Emittable(entries_read[k].entry))

\* C12: the items _parse_feed has appended are, in feed order, one for each entry
\* read that raised nothing and has a non-empty trimmed title and link, and none
\* for any other entry; whatever an entry did, the collection is still running
\* (or has returned), so the entries after it and the feeds after its feed are read.
C12_EmittedIffWellFormed ==
    LET positions == EmittablePositions IN
    /\ entries_read # << >> => c_pc \in {"feeds", "done"}
    /\ Len(parsed_items) = Len(positions)
    /\ \A j \in 1..Len(parsed_items) :
          LET e == entries_read[positions[j]] IN
          /\ parsed_items[j].titulo = Strip(e.entry.title)
          /\ parsed_items[j].url = Strip(e.entry.link)
          /\ parsed_items[j].resumo_raw = Strip(e.entry.summary)
          /\ parsed_items[j].fonte = RSS_FEEDS[e.feed]

\* an entry that raises, then an entry with a blank title, both in the first feed,
\* then a well-formed entry of the second feed, which is appended
C12_Witness ==
    /\ Len(entries_read) = 3
    /\ entries_read[1].entry.fault
    /\ entries_read[1].feed = 1
    /\ ~entries_read[2].entry.fault
    /\ Strip(entries_read[2].entry.title) = << >>
    /\ entries_read[2].feed = 1
    /\ Emittable(entries_read[3].entry)
    /\ entries_read[3].feed = 2
    /\ Len(parsed_items) = 1
    /\ parsed_items[1].titulo = <<"b">>

\* C13: an item whose entry carried no publication time has the instant of its
\* parsing as its time, that time lies in the window computed when the collection
\* started, and the item is among the collected ones.
C13_DefaultedTimestampKept ==
    LET positions == EmittablePositions IN
    \A j \in 1..Len(parsed_items) :
        entries_read[positions[j]].entry.published = << >> =>
            /\ in_window(parsed_items[j], window)
            /\ InList(parsed_items[j], collected)

====
